---- MODULE Spec2Model ----
(***************************************************************************)
(* Model of src/src/models/input_feature_embedder.py:                      *)
(*   InputFeatureEmbedder   (wrapper around AtomAttentionEncoder)          *)
(*   ProteusFeatureEmbedder (s_inputs, s_trunk, z_trunk)                   *)
(*                                                                         *)
(* One batch element is modelled (bs = 1), so a tensor [bs, n, c] is a     *)
(* sequence of n vectors and a tensor [bs, n, m, c] a sequence of n        *)
(* sequences of m vectors.  Tensor entries are exact rationals <<num,den>> *)
(* in lowest terms with den > 0.                                           *)
(*                                                                         *)
(* AtomAttentionEncoder, Linear and RelativePositionEncoding are imported  *)
(* by the file and are not part of it; they are modelled from the design   *)
(* document (sections 4.1, 4.2, 4.3).                                      *)
(***************************************************************************)
EXTENDS Integers, Sequences, FiniteSets, TLC

VARIABLES proteus, features, atom_mask, token_mask, prev, last, pc

vars == <<proteus, features, atom_mask, token_mask, prev, last, pc>>

(* ---------------------------- bounds ----------------------------------- *)

NAtoms == 3

MaxTok == 2

(* ------------------------ exact arithmetic ----------------------------- *)

Abs(x) == IF x < 0 THEN -x ELSE x

Max(a, b) == IF a >= b THEN a ELSE b

RECURSIVE GCD(_, _)
GCD(a, b) == IF b = 0 THEN a ELSE GCD(b, a % b)

Norm(n, d) == LET g == GCD(Abs(n), d) IN <<n \div g, d \div g>>

RZero == <<0, 1>>

RInt(k) == <<k, 1>>

RAdd(x, y) == Norm(x[1] * y[2] + y[1] * x[2], x[2] * y[2])

RSub(x, y) == Norm(x[1] * y[2] - y[1] * x[2], x[2] * y[2])

RScale(k, x) == Norm(k * x[1], x[2])

RDivInt(x, k) == Norm(x[1], x[2] * k)

(* the sequence <<f[1], ..., f[n]>>, every entry computed once *)
RECURSIVE Tensor(_, _)
Tensor(f, n) == IF n = 0 THEN <<>> ELSE Append(Tensor(f, n - 1), f[n])

VZero(c) == Tensor([ch \in 1..c |-> RZero], c)

VAdd(u, v) == Tensor([ch \in 1..Len(u) |-> RAdd(u[ch], v[ch])], Len(u))

VSub(u, v) == Tensor([ch \in 1..Len(u) |-> RSub(u[ch], v[ch])], Len(u))

VScale(k, u) == Tensor([ch \in 1..Len(u) |-> RScale(k, u[ch])], Len(u))

VDivInt(u, k) == Tensor([ch \in 1..Len(u) |-> RDivInt(u[ch], k)], Len(u))

(* sum of the vectors vs[a], a in S, of width c *)
RECURSIVE VSum(_, _, _)
VSum(vs, S, c) ==
    IF S = {} THEN VZero(c)
    ELSE LET a == CHOOSE x \in S : \A y \in S : x <= y
         IN VAdd(vs[a], VSum(vs, S \ {a}, c))

(* ------------------------ tensors of rank 3 ---------------------------- *)

Shape(T) == <<Len(T), Len(T[1]), Len(T[1][1])>>

Broadcastable(sa, sb) ==
    \A k \in 1..3 : sa[k] = sb[k] \/ sa[k] = 1 \/ sb[k] = 1

BIdx(dim, i) == IF dim = 1 THEN 1 ELSE i

(* torch "+" on two rank-3 tensors whose shapes are Broadcastable *)
BroadcastAdd(A, B) ==
    LET sa == Shape(A)
        sb == Shape(B)
        d1 == Max(sa[1], sb[1])
        d2 == Max(sa[2], sb[2])
        d3 == Max(sa[3], sb[3])
    IN Tensor([i \in 1..d1 |->
         Tensor([j \in 1..d2 |->
           Tensor([k \in 1..d3 |->
              RAdd(A[BIdx(sa[1], i)][BIdx(sa[2], j)][BIdx(sa[3], k)],
                   B[BIdx(sb[1], i)][BIdx(sb[2], j)][BIdx(sb[3], k)])], d3)], d2)], d1)

(* x[:, :, None, :] *)
UnsqueezeCol(x) == Tensor([i \in 1..Len(x) |-> <<x[i]>>], Len(x))

(* x[:, None, :, :] *)
UnsqueezeRow(x) == <<x>>

(* ------------------------ Linear (primitives) -------------------------- *)

(* y = W x + b for one vector; W has one row per output channel *)
LinearApply(lin, x) ==
    Tensor([o \in 1..Len(lin.weight) |->
        LET terms == Tensor([i \in 1..Len(x) |-> <<RScale(lin.weight[o][i], x[i])>>], Len(x))
            dot == VSum(terms, 1..Len(x), 1)[1]
        IN IF lin.bias = <<>> THEN dot ELSE RAdd(dot, RInt(lin.bias[o]))], Len(lin.weight))

(* a Linear applied to the last dimension of a rank-2 / rank-3 tensor *)
Linear2(lin, x) == Tensor([i \in 1..Len(x) |-> LinearApply(lin, x[i])], Len(x))

Linear3(lin, T) ==
    Tensor([i \in 1..Len(T) |->
        Tensor([j \in 1..Len(T[i]) |-> LinearApply(lin, T[i][j])], Len(T[i]))], Len(T))

(* learned weights as they stand after construction: a fixed integer       *)
(* matrix per layer, different for different layers (slot k)               *)
LinearInit(c_in, c_out, with_bias, k) ==
    [weight |-> [o \in 1..c_out |-> [i \in 1..c_in |-> k * o + i]],
     bias   |-> IF with_bias THEN [o \in 1..c_out |-> k] ELSE <<>>]

(* ------------------- AtomAttentionEncoder (4.1) ------------------------ *)

None == <<>>

AtomAttentionEncoder_init(args) == args

AtomValid(mask, a) == IF mask = None THEN TRUE ELSE mask[a]

(* step 1: per-atom embedding of the reference-conformer feature *)
AtomEmbed(enc, feats) ==
    Tensor([a \in 1..Len(feats.ref) |->
        Tensor([ch \in 1..enc.c_token |-> RInt(feats.ref[a] * ch)], enc.c_token)],
           Len(feats.ref))

(* key neighbourhood of the query chunk that holds atom a *)
KeyWindow(enc, n, a) ==
    LET chunk == (a - 1) \div enc.n_queries
        start == chunk * enc.n_queries + 1 - ((enc.n_keys - enc.n_queries) \div 2)
    IN {k \in 1..n : start <= k /\ k < start + enc.n_keys}

(* step 3: one attention block; padding atoms are neither query nor key,   *)
(* atoms in drop lose their update (dropout)                               *)
AttentionBlock(enc, mask, drop, rep) ==
    LET n == Len(rep)
        keys(a) == {k \in KeyWindow(enc, n, a) : AtomValid(mask, k)}
    IN Tensor([a \in 1..n |->
          IF AtomValid(mask, a) /\ a \notin drop
          THEN VAdd(rep[a], VDivInt(VSum(rep, keys(a), enc.c_token), Cardinality(keys(a))))
          ELSE rep[a]], n)

RECURSIVE AttentionStack(_, _, _, _, _)
AttentionStack(enc, mask, drop, rep, b) ==
    IF b = 0 THEN rep
    ELSE AttentionStack(enc, mask, drop, AttentionBlock(enc, mask, drop, rep), b - 1)

(* step 4: mean over the valid atoms of each token, zero if there is none *)
AggregateAtomToToken(enc, feats, mask, rep) ==
    Tensor([t \in 1..enc.n_tokens |->
        LET members == {a \in 1..Len(rep) : AtomValid(mask, a) /\ feats.atom_to_token[a] = t}
        IN IF members = {} THEN VZero(enc.c_token)
           ELSE VDivInt(VSum(rep, members, enc.c_token), Cardinality(members))], enc.n_tokens)

AtomAttentionEncoder(enc, feats, mask, drop) ==
    LET q == AttentionStack(enc, mask, IF enc.dropout > 0 THEN drop ELSE {},
                            AtomEmbed(enc, feats), enc.num_blocks)
    IN [token_single |-> AggregateAtomToToken(enc, feats, mask, q),
        atom_single  |-> q]

(* ------------------- RelativePositionEncoding (4.3) -------------------- *)

RelativePositionEncoding_init(c_z) == [c_z |-> c_z]

Clip(x, lo, hi) == IF x < lo THEN lo ELSE IF x > hi THEN hi ELSE x

(* learned value of each clipped-offset bin, per channel *)
RelPosBin(d, ch) == ch * (IF d < 0 THEN 2 ELSE IF d = 0 THEN 1 ELSE 4)

RelativePositionEncoding(rpe, feats, tmask) ==
    LET n == Len(feats.residue_index)
    IN Tensor([i \in 1..n |-> Tensor([j \in 1..n |-> Tensor([ch \in 1..rpe.c_z |->
          IF tmask[i] /\ tmask[j]
          THEN RInt(RelPosBin(Clip(feats.residue_index[i] - feats.residue_index[j], -1, 1), ch))
          ELSE RZero], rpe.c_z)], n)], n)

(* ------------------------ InputFeatureEmbedder ------------------------- *)

(* the encoder built with a dropout of its own *)
EncoderArgs_own_dropout(self) ==
    [n_tokens     |-> self.n_tokens,
     c_token      |-> self.c_token,
     c_atom       |-> self.c_atom,
     c_atompair   |-> self.c_atompair,
     c_trunk_pair |-> self.c_trunk_pair,
     num_blocks   |-> self.num_blocks,
     num_heads    |-> self.num_heads,
     dropout      |-> 10,
     n_queries    |-> self.n_queries,
     n_keys       |-> self.n_keys,
     trunk_conditioning |-> FALSE,
     device       |-> self.device,
     dtype        |-> self.dtype]

(* n_queries and n_keys handed over in each other's place *)
EncoderArgs_windows_swapped(self) ==
    [n_tokens     |-> self.n_tokens,
     c_token      |-> self.c_token,
     c_atom       |-> self.c_atom,
     c_atompair   |-> self.c_atompair,
     c_trunk_pair |-> self.c_trunk_pair,
     num_blocks   |-> self.num_blocks,
     num_heads    |-> self.num_heads,
     dropout      |-> self.dropout,
     n_queries    |-> self.n_keys,
     n_keys       |-> self.n_queries,
     trunk_conditioning |-> FALSE,
     device       |-> self.device,
     dtype        |-> self.dtype]

(* the keyword arguments handed to AtomAttentionEncoder(...) *)
EncoderArgs(self) ==
    [n_tokens     |-> self.n_tokens,
     c_token      |-> self.c_token,
     c_atom       |-> self.c_atom,
     c_atompair   |-> self.c_atompair,
     c_trunk_pair |-> self.c_trunk_pair,
     num_blocks   |-> self.num_blocks,
     num_heads    |-> self.num_heads,
     dropout      |-> self.dropout,
     n_queries    |-> self.n_queries,
     n_keys       |-> self.n_keys,
     trunk_conditioning |-> FALSE,
     device       |-> self.device,
     dtype        |-> self.dtype]

InputFeatureEmbedder_init(args) ==
    LET self == [n_tokens     |-> args.n_tokens,
                 num_blocks   |-> args.num_blocks,
                 c_token      |-> args.c_token,
                 c_atom       |-> args.c_atom,
                 c_atompair   |-> args.c_atompair,
                 c_trunk_pair |-> args.c_trunk_pair,
                 num_heads    |-> args.num_heads,
                 dropout      |-> args.dropout,
                 n_queries    |-> args.n_queries,
                 n_keys       |-> args.n_keys,
                 device       |-> args.device,
                 dtype        |-> args.dtype]
    IN [cfg |-> self, encoder |-> AtomAttentionEncoder_init(EncoderArgs(self))]

(* self.encoder(features=features): the mask is not passed on *)
InputFeatureEmbedder_forward_nomask(self, feats, mask, drop) ==
    LET output == AtomAttentionEncoder(self.encoder, feats, None, drop)
        per_token_features == output.token_single
    IN per_token_features

InputFeatureEmbedder_forward(self, feats, mask, drop) ==
    LET output == AtomAttentionEncoder(self.encoder, feats, mask, drop)
        per_token_features == output.token_single
    IN per_token_features

(* ------------------------ ProteusFeatureEmbedder ----------------------- *)

(* Linear(c_token, c_token) with the default bias *)
Linear_s_init_biased(c_token) == LinearInit(c_token, c_token, TRUE, 1)

Linear_s_init(c_token) == LinearInit(c_token, c_token, FALSE, 1)

Linear_z_col(c_token, c_trunk_pair) == LinearInit(c_token, c_trunk_pair, FALSE, 2)

Linear_z_row(c_token, c_trunk_pair) == LinearInit(c_token, c_trunk_pair, FALSE, 3)

ProteusFeatureEmbedder_init(args) ==
    [cfg |-> [n_tokens     |-> args.n_tokens,
              num_blocks   |-> args.num_blocks,
              c_token      |-> args.c_token,
              c_atom       |-> args.c_atom,
              c_atompair   |-> args.c_atompair,
              c_trunk_pair |-> args.c_trunk_pair,
              num_heads    |-> args.num_heads,
              dropout      |-> args.dropout,
              n_queries    |-> args.n_queries,
              n_keys       |-> args.n_keys,
              device       |-> args.device,
              dtype        |-> args.dtype],
     input_feature_embedder |-> InputFeatureEmbedder_init(args),
     linear_s_init |-> Linear_s_init(args.c_token),
     linear_z_col  |-> Linear_z_col(args.c_token, args.c_trunk_pair),
     linear_z_row  |-> Linear_z_row(args.c_token, args.c_trunk_pair),
     relative_pos_encoder |-> RelativePositionEncoding_init(args.c_trunk_pair)]

(* s_trunk = self.linear_s_init(per_token_features) *)
STrunk(self, per_token_features) ==
    Linear2(self.linear_s_init, per_token_features)

(* linear_z_row(x[:, :, None, :]) + linear_z_col(x[:, None, :, :]) *)
ZTrunkOuterSum_swapped(self, per_token_features) ==
    BroadcastAdd(Linear3(self.linear_z_row, UnsqueezeCol(per_token_features)),
                 Linear3(self.linear_z_col, UnsqueezeRow(per_token_features)))

(* linear_z_col(x[:, :, None, :]) + linear_z_row(x[:, :, None, :]) *)
ZTrunkOuterSum_same_axis(self, per_token_features) ==
    BroadcastAdd(Linear3(self.linear_z_col, UnsqueezeCol(per_token_features)),
                 Linear3(self.linear_z_row, UnsqueezeCol(per_token_features)))

(* linear_z_col(x[:, :, None, :]) + linear_z_row(x[:, None, :, :]) *)
ZTrunkOuterSum(self, per_token_features) ==
    BroadcastAdd(Linear3(self.linear_z_col, UnsqueezeCol(per_token_features)),
                 Linear3(self.linear_z_row, UnsqueezeRow(per_token_features)))

ProteusFeatures(s_inputs, s_trunk, z_trunk) ==
    [status |-> "ok", s_inputs |-> s_inputs, s_trunk |-> s_trunk, z_trunk |-> z_trunk]

RuntimeError == [status |-> "RuntimeError"]

(* the input feature embedder called without the atom mask *)
ProteusFeatureEmbedder_forward_no_atom_mask(self, feats, amask, tmask, drop) ==
    LET per_token_features ==
            InputFeatureEmbedder_forward(self.input_feature_embedder, feats, None, drop)
        s_trunk == STrunk(self, per_token_features)
        z_outer == ZTrunkOuterSum(self, per_token_features)
        bias == RelativePositionEncoding(self.relative_pos_encoder, feats, tmask)
    IN IF Broadcastable(Shape(z_outer), Shape(bias))
       THEN ProteusFeatures(per_token_features, s_trunk, BroadcastAdd(z_outer, bias))
       ELSE RuntimeError

(* the per-token features of invalid tokens zeroed before the projections *)
ProteusFeatureEmbedder_forward_token_masked(self, feats, amask, tmask, drop) ==
    LET raw == InputFeatureEmbedder_forward(self.input_feature_embedder, feats, amask, drop)
        per_token_features ==
            Tensor([t \in 1..Len(raw) |->
                      IF t <= Len(tmask) /\ ~tmask[t] THEN VZero(Len(raw[t])) ELSE raw[t]],
                   Len(raw))
        s_trunk == STrunk(self, per_token_features)
        z_outer == ZTrunkOuterSum(self, per_token_features)
        bias == RelativePositionEncoding(self.relative_pos_encoder, feats, tmask)
    IN IF Broadcastable(Shape(z_outer), Shape(bias))
       THEN ProteusFeatures(raw, s_trunk, BroadcastAdd(z_outer, bias))
       ELSE RuntimeError

ProteusFeatureEmbedder_forward(self, feats, amask, tmask, drop) ==
    LET per_token_features ==
            InputFeatureEmbedder_forward(self.input_feature_embedder, feats, amask, drop)
        s_trunk == STrunk(self, per_token_features)
        z_outer == ZTrunkOuterSum(self, per_token_features)
        bias == RelativePositionEncoding(self.relative_pos_encoder, feats, tmask)
    IN IF Broadcastable(Shape(z_outer), Shape(bias))
       THEN ProteusFeatures(per_token_features, s_trunk, BroadcastAdd(z_outer, bias))
       ELSE RuntimeError

(* ------------------------------ state ---------------------------------- *)

FeatVals == {1, 2}

OtherFeat(v) == CHOOSE w \in FeatVals : w # v

CtorArgs ==
    [n_tokens : 1..MaxTok, c_token : {2}, c_atom : {3}, c_atompair : {5},
     c_trunk_pair : {1}, num_blocks : {2}, num_heads : {1}, dropout : {0, 50},
     n_queries : {2}, n_keys : {4}, device : {"cpu"}, dtype : {"float32"}]

NoCall == [status |-> "none"]

(* the outcomes of the dropout draw of one call: no atom update dropped,   *)
(* or the update of every atom dropped                                     *)
DropChoices(enc) ==
    IF enc.dropout > 0 THEN {{}, 1..NAtoms} ELSE {{}}

RefInit == [a \in 1..NAtoms |-> 1 + (a % 2)]

(* an embedder with dropout at its default 0.0, any atom-to-token mapping, *)
(* any atom and token masks                                               *)
Init ==
    /\ \E args \in CtorArgs :
         /\ args.dropout = 0
         /\ proteus = ProteusFeatureEmbedder_init(args)
         /\ \E m \in [1..NAtoms -> 1..args.n_tokens], tf \in 1..MaxTok :
              /\ features = [ref |-> RefInit,
                             atom_to_token |-> m,
                             residue_index |-> [i \in 1..tf |-> i]]
              /\ token_mask \in [1..tf -> BOOLEAN]
    /\ atom_mask \in [1..NAtoms -> BOOLEAN]
    /\ prev = NoCall
    /\ last = NoCall
    /\ pc = "ready"

(* an embedder with or without dropout, atoms stored in token order, every *)
(* token valid                                                             *)
InitPerturb ==
    /\ \E args \in CtorArgs :
         /\ proteus = ProteusFeatureEmbedder_init(args)
         /\ \E m \in [1..NAtoms -> 1..args.n_tokens], tf \in 1..MaxTok :
              /\ \A a \in 1..(NAtoms - 1) : m[a] <= m[a + 1]
              /\ features = [ref |-> RefInit,
                             atom_to_token |-> m,
                             residue_index |-> [i \in 1..tf |-> i]]
              /\ token_mask = [i \in 1..tf |-> TRUE]
    /\ atom_mask \in [1..NAtoms -> BOOLEAN]
    /\ prev = NoCall
    /\ last = NoCall
    /\ pc = "ready"

(* one call of InputFeatureEmbedder.forward by the caller *)
ForwardInput ==
    /\ pc = "ready"
    /\ \E drop \in DropChoices(proteus.input_feature_embedder.encoder) :
         last' = [status |-> "call", fn |-> "InputFeatureEmbedder",
                  features |-> features, atom_mask |-> atom_mask,
                  token_mask |-> None, drop |-> drop,
                  out |-> InputFeatureEmbedder_forward(proteus.input_feature_embedder,
                                                       features, atom_mask, drop)]
    /\ prev' = last
    /\ pc' = "returned"
    /\ UNCHANGED <<proteus, features, atom_mask, token_mask>>

(* one call of ProteusFeatureEmbedder.forward by the caller *)
Forward ==
    /\ pc = "ready"
    /\ \E drop \in DropChoices(proteus.input_feature_embedder.encoder) :
         last' = [status |-> "call", fn |-> "ProteusFeatureEmbedder",
                  features |-> features, atom_mask |-> atom_mask,
                  token_mask |-> token_mask, drop |-> drop,
                  out |-> ProteusFeatureEmbedder_forward(proteus, features, atom_mask,
                                                          token_mask, drop)]
    /\ prev' = last
    /\ pc' = "returned"
    /\ UNCHANGED <<proteus, features, atom_mask, token_mask>>

(* the caller gets ready to call again with the inputs as they are *)
Repeat ==
    /\ pc = "returned"
    /\ prev = NoCall
    /\ pc' = "ready"
    /\ UNCHANGED <<proteus, features, atom_mask, token_mask, prev, last>>

(* the caller changes the reference feature of some atoms, then calls again *)
PerturbRef ==
    /\ pc = "returned"
    /\ prev = NoCall
    /\ \E S \in SUBSET (1..NAtoms) :
         /\ S # {}
         /\ features' = [features EXCEPT !.ref =
                [a \in 1..NAtoms |-> IF a \in S THEN OtherFeat(@[a]) ELSE @[a]]]
    /\ pc' = "ready"
    /\ UNCHANGED <<proteus, atom_mask, token_mask, prev, last>>

(* the caller changes the token mask, then calls again *)
PerturbTokenMask ==
    /\ pc = "returned"
    /\ prev = NoCall
    /\ \E m \in [1..Len(token_mask) -> BOOLEAN] :
         /\ m # token_mask
         /\ token_mask' = m
    /\ pc' = "ready"
    /\ UNCHANGED <<proteus, features, atom_mask, prev, last>>

Next == Forward \/ ForwardInput

Spec == Init /\ [][Next]_vars

NextPerturb == Forward \/ Repeat \/ PerturbRef \/ PerturbTokenMask

SpecPerturb == InitPerturb /\ [][NextPerturb]_vars

(* ------------------------- observed calls ------------------------------ *)

IsCall(c, fn) == c.status = "call" /\ c.fn = fn

(* the calls of ProteusFeatureEmbedder.forward that returned a value *)
ProteusReturned == {c \in {prev, last} : IsCall(c, "ProteusFeatureEmbedder") /\ c.out.status = "ok"}

InputReturned == {c \in {prev, last} : IsCall(c, "InputFeatureEmbedder")}

BiasOf(c) == RelativePositionEncoding(proteus.relative_pos_encoder, c.features, c.token_mask)

(* token pairs for which both the projected pair tensor and the bias have an entry *)
PairRange(c) ==
    LET n == proteus.cfg.n_tokens
        tf == Len(c.features.residue_index)
    IN 1..(IF n <= tf THEN n ELSE tf)

AllZero3(T) == \A i \in 1..Len(T) : \A j \in 1..Len(T[i]) : \A k \in 1..Len(T[i][j]) : T[i][j][k] = RZero

ColProj(c, t) == LinearApply(proteus.linear_z_col, c.out.s_inputs[t])

RowProj(c, t) == LinearApply(proteus.linear_z_row, c.out.s_inputs[t])

(* the two projections of every token of call c *)
ColProjs(c) == Tensor([t \in 1..Len(c.out.s_inputs) |-> ColProj(c, t)], Len(c.out.s_inputs))

RowProjs(c) == Tensor([t \in 1..Len(c.out.s_inputs) |-> RowProj(c, t)], Len(c.out.s_inputs))

(* ------------------------------ claims --------------------------------- *)

(* C1 as stated: z_trunk[i, j] = linear_z_row(token_i) + linear_z_col(token_j)  *)
(* + bias[i, j] for every returned z_trunk and every ordered token pair (i, j). *)
C1_RowOfFirst_ColOfSecond ==
    \A c \in ProteusReturned : \A i \in PairRange(c) : \A j \in PairRange(c) :
        c.out.z_trunk[i][j] = VAdd(VAdd(RowProj(c, i), ColProj(c, j)), BiasOf(c)[i][j])

(* C1 amended: z_trunk[i, j] = linear_z_col(token_i) + linear_z_row(token_j)    *)
(* + bias[i, j] for every ordered token pair (i, j) that has a bias entry, and  *)
(* with an all-zero bias z_trunk[i, j] is that outer sum alone for all tokens.  *)
C1_OuterSumPlusBias ==
    \A c \in ProteusReturned :
        LET bias == BiasOf(c)
            col == ColProjs(c)
            row == RowProjs(c)
        IN /\ \A i \in PairRange(c) : \A j \in PairRange(c) :
                 c.out.z_trunk[i][j] = VAdd(VAdd(col[i], row[j]), bias[i][j])
           /\ AllZero3(bias) =>
                 \A i \in 1..proteus.cfg.n_tokens : \A j \in 1..proteus.cfg.n_tokens :
                     c.out.z_trunk[i][j] = VAdd(col[i], row[j])

(* a returned z_trunk over two tokens with different vectors and a non-zero bias *)
C1_Witness ==
    \E c \in ProteusReturned :
        /\ proteus.cfg.n_tokens >= 2
        /\ Len(c.features.residue_index) = proteus.cfg.n_tokens
        /\ c.out.s_inputs[1] # c.out.s_inputs[2]
        /\ ColProj(c, 1) # RowProj(c, 1)
        /\ ~AllZero3(BiasOf(c))

(* C2 as stated: z_trunk[i, j] - z_trunk[k, j] equals the difference of the row *)
(* terms of tokens i and k alone, for all i, k, j.                              *)
C2_RowDifferenceOnly ==
    \A c \in ProteusReturned : \A i \in PairRange(c) : \A k \in PairRange(c) : \A j \in PairRange(c) :
        VSub(c.out.z_trunk[i][j], c.out.z_trunk[k][j]) = VSub(ColProj(c, i), ColProj(c, k))

(* C2 amended: z_trunk[i, j] - z_trunk[k, j] equals the difference of the row   *)
(* terms of tokens i and k plus the bias difference bias[i, j] - bias[k, j]; the *)
(* projection of token j cancels.                                                *)
C2_RowDifferencePlusBias ==
    \A c \in ProteusReturned :
        LET bias == BiasOf(c)
            col == ColProjs(c)
        IN \A i \in PairRange(c) : \A k \in PairRange(c) : \A j \in PairRange(c) :
              VSub(VSub(c.out.z_trunk[i][j], c.out.z_trunk[k][j]),
                   VSub(bias[i][j], bias[k][j]))
                = VSub(col[i], col[k])

(* a returned z_trunk with two rows whose row terms and whose biases differ *)
C2_Witness ==
    \E c \in ProteusReturned : \E i \in PairRange(c) : \E k \in PairRange(c) : \E j \in PairRange(c) :
        /\ ColProj(c, i) # ColProj(c, k)
        /\ BiasOf(c)[i][j] # BiasOf(c)[k][j]
        /\ RowProj(c, j) # VZero(proteus.cfg.c_trunk_pair)

(* C3 as stated: a call whose bias token count or channel width differs from    *)
(* (n_tokens, n_tokens, c_trunk_pair) fails with DimensionMismatch and returns   *)
(* no ProteusFeatures.                                                           *)
C3_MismatchFails ==
    \A c \in {prev, last} :
        (/\ IsCall(c, "ProteusFeatureEmbedder")
         /\ Shape(BiasOf(c)) # <<proteus.cfg.n_tokens, proteus.cfg.n_tokens, proteus.cfg.c_trunk_pair>>)
        => c.out.status = "DimensionMismatch"

(* C7 as stated: s_inputs and s_trunk are (n_tokens, c_token) and z_trunk is    *)
(* (n_tokens, n_tokens, c_token).                                                *)
C7_DocumentedShapes ==
    \A c \in ProteusReturned :
        /\ <<Len(c.out.s_inputs), Len(c.out.s_inputs[1])>> = <<proteus.cfg.n_tokens, proteus.cfg.c_token>>
        /\ <<Len(c.out.s_trunk), Len(c.out.s_trunk[1])>> = <<proteus.cfg.n_tokens, proteus.cfg.c_token>>
        /\ Shape(c.out.z_trunk) = <<proteus.cfg.n_tokens, proteus.cfg.n_tokens, proteus.cfg.c_token>>

EncoderOf(c) ==
    AtomAttentionEncoder(proteus.input_feature_embedder.encoder, c.features, c.atom_mask, c.drop)

(* the valid atoms of call c that are mapped to token t *)
Members(c, t) ==
    {a \in 1..Len(c.features.ref) : c.atom_mask[a] /\ c.features.atom_to_token[a] = t}

(* C4: InputFeatureEmbedder.forward returns the encoder's token_single, s_inputs *)
(* is that tensor, and s_trunk has one row per token, row t being the unbiased   *)
(* product of the linear_s_init weight with the vector of token t: equal token   *)
(* vectors give equal rows and an all-zero token vector an all-zero row.         *)
C4_SingleIsUnbiasedProjection ==
    /\ \A c \in InputReturned : c.out = EncoderOf(c).token_single
    /\ \A c \in ProteusReturned :
          /\ c.out.s_inputs = EncoderOf(c).token_single
          /\ Len(c.out.s_trunk) = Len(c.out.s_inputs)
          /\ Len(c.out.s_trunk) = proteus.cfg.n_tokens
          /\ \A t \in 1..Len(c.out.s_trunk) :
                /\ Len(c.out.s_trunk[t]) = proteus.cfg.c_token
                /\ c.out.s_trunk[t] =
                      LinearApply([weight |-> proteus.linear_s_init.weight, bias |-> <<>>],
                                  c.out.s_inputs[t])
                /\ c.out.s_inputs[t] = VZero(proteus.cfg.c_token)
                      => c.out.s_trunk[t] = VZero(proteus.cfg.c_token)
                /\ \A u \in 1..Len(c.out.s_trunk) :
                      c.out.s_inputs[t] = c.out.s_inputs[u] => c.out.s_trunk[t] = c.out.s_trunk[u]

(* a returned s_trunk with an all-zero token vector next to a token vector that *)
(* is not zero                                                                   *)
C4_Witness ==
    \E c \in ProteusReturned : \E t \in 1..Len(c.out.s_inputs) : \E u \in 1..Len(c.out.s_inputs) :
        /\ c.out.s_inputs[t] = VZero(proteus.cfg.c_token)
        /\ c.out.s_inputs[u] # VZero(proteus.cfg.c_token)
        /\ c.out.s_trunk[u] # VZero(proteus.cfg.c_token)

TwoCalls == IsCall(prev, "ProteusFeatureEmbedder") /\ IsCall(last, "ProteusFeatureEmbedder")

(* the two calls differ at most in the reference features of masked atoms *)
SameButMaskedRef ==
    /\ TwoCalls
    /\ prev.atom_mask = last.atom_mask
    /\ prev.token_mask = last.token_mask
    /\ prev.drop = last.drop
    /\ prev.features.atom_to_token = last.features.atom_to_token
    /\ prev.features.residue_index = last.features.residue_index
    /\ \A a \in 1..Len(last.features.ref) :
          last.atom_mask[a] => prev.features.ref[a] = last.features.ref[a]

ConfigFields ==
    {"n_tokens", "c_token", "c_atom", "c_atompair", "c_trunk_pair", "num_blocks",
     "num_heads", "dropout", "n_queries", "n_keys", "device", "dtype"}

(* the encoder was handed the values the constructor was given *)
EncoderHasCtorValues ==
    /\ proteus.cfg \in CtorArgs
    /\ proteus.input_feature_embedder.cfg = proteus.cfg
    /\ \A f \in ConfigFields : proteus.input_feature_embedder.encoder[f] = proteus.cfg[f]
    /\ proteus.input_feature_embedder.encoder.trunk_conditioning = FALSE

(* C9: no step changes the embedder (configuration, submodules, weights), the   *)
(* encoder holds the constructor's values, and a forward call leaves the         *)
(* caller's features and masks as they were.                                     *)
C9_ForwardChangesNothing ==
    /\ [](EncoderHasCtorValues)
    /\ [][/\ proteus' = proteus
          /\ (pc = "ready" /\ pc' = "returned")
                => /\ features' = features
                   /\ atom_mask' = atom_mask
                   /\ token_mask' = token_mask
                   /\ last'.features = features
                   /\ last'.atom_mask = atom_mask]_vars

(* two calls have returned *)
C9_Witness ==
    /\ TwoCalls
    /\ pc = "returned"
    /\ last.out.status = "ok"
    /\ prev.features # last.features

(* the two calls differ only in the token mask *)
SameButTokenMask ==
    /\ TwoCalls
    /\ prev.features = last.features
    /\ prev.atom_mask = last.atom_mask
    /\ prev.drop = last.drop
    /\ prev.token_mask # last.token_mask
    /\ prev.out.status = "ok"
    /\ last.out.status = "ok"

BiasAt(c, i, j) ==
    LET tf == Len(c.features.residue_index)
    IN BiasOf(c)[BIdx(tf, i)][BIdx(tf, j)]

(* C10: two calls that differ only in token_mask return the same s_inputs and   *)
(* s_trunk, their z_trunk differ by the difference of the two biases, and the    *)
(* s_trunk row and outer-sum terms of a token marked invalid are the ones of its *)
(* token vector, not zero.                                                       *)
C10_TokenMaskOnlyInBias ==
    SameButTokenMask =>
        /\ last.out.s_inputs = prev.out.s_inputs
        /\ last.out.s_trunk = prev.out.s_trunk
        /\ Shape(last.out.z_trunk) = Shape(prev.out.z_trunk)
        /\ \A i \in 1..Len(last.out.z_trunk) : \A j \in 1..Len(last.out.z_trunk[i]) :
              VSub(last.out.z_trunk[i][j], BiasAt(last, i, j))
                 = VSub(prev.out.z_trunk[i][j], BiasAt(prev, i, j))
        /\ \A t \in 1..Len(last.out.s_trunk) :
              last.out.s_trunk[t] = LinearApply(proteus.linear_s_init, last.out.s_inputs[t])

(* two returned calls that differ only in token_mask, the later one marking      *)
(* invalid a token whose s_trunk row is not zero                                 *)
C10_Witness ==
    /\ SameButTokenMask
    /\ \E t \in 1..Len(last.token_mask) :
          /\ t <= proteus.cfg.n_tokens
          /\ ~last.token_mask[t]
          /\ last.out.s_trunk[t] # VZero(proteus.cfg.c_token)
          /\ last.out.z_trunk # prev.out.z_trunk

====
